---- MODULE Spec2Model ----
(***************************************************************************)
(* Meal planner: the /api/plan gateway (src/api/plan/index.js) and the     *)
(* browser script that drives the thread/message/run protocol directly     *)
(* (src/app.js, first variant).                                            *)
(*                                                                         *)
(* Strings that the code inspects character by character (texts that are   *)
(* trimmed, endpoints whose slashes are stripped, numeric environment      *)
(* values) are sequences of one-character strings.  Error messages are     *)
(* sequences of string parts, read as their concatenation.                 *)
(***************************************************************************)
EXTENDS Integers, Sequences, FiniteSets, TLC

VARIABLES
    env,         \* process.env of the gateway
    pc,          \* position of the handler / of runPlanner
    body,        \* gateway: what `body` holds (index.js:155): "unset", "object", "null", "scalar"
    prompt,      \* gateway: const prompt (index.js:158)
    overrides,   \* gateway: the fields endpoint and agentId of the parsed body
    maxMs,       \* gateway: waitForRunCompletion maxMs
    intervalMs,  \* gateway: waitForRunCompletion intervalMs
    elapsed,     \* gateway: Date.now() - start
    calls,       \* outbound calls issued so far, in order, with their outcome
    polls,       \* status GETs issued
    waits,       \* sleeps started
    lastStatus,  \* status seen by the latest status GET ("" when it gave none)
    specSeen,    \* how many statuses of the documented terminal sets were seen (0, 1, 2 = more)
    upstreamOk,  \* every upstream answer so far was a success as documented
    iter,        \* direct: loop counter i of runPlanner
    aborted,     \* direct: abort.signal.aborted
    response,    \* gateway: the HTTP response returned by the handler
    planned,     \* direct: how runPlanner ended
    res,         \* direct: the Response apiFetch holds between its two awaits
    fn,          \* the function of the scripts applied on its own ("" before it is)
    arg,         \* its argument
    ret,         \* what the function returned
    script,      \* page: which of the two scripts of app.js is loaded
    cfg,         \* page: window.MEALPLANNER_CONFIG, as far as validateConfig reads it
    abort,       \* page: the AbortController `abort` holds (they are numbered)
    abortedSignals,  \* page: the controllers whose abort() was called
    generations, \* page: the submit handlers started so far, each with its position
    generating,  \* page: btnGenerate is disabled and btnStop enabled
    out,         \* page: what the output element shows, and of which generation
    localStorage \* page: the generation whose plan is the cached last plan (0: none)

vars == <<env, pc, body, prompt, overrides, maxMs, intervalMs, elapsed, calls, polls,
          waits, lastStatus, specSeen, upstreamOk, iter, aborted, response, planned, res,
          fn, arg, ret, script, cfg, abort, abortedSignals, generations, generating, out,
          localStorage>>

\* the page under its events
page == <<script, cfg, abort, abortedSignals, generations, generating, out, localStorage>>

\* what runPlanner leaves alone
apart == <<fn, arg, ret, page>>

\* what the gateway leaves alone
aside == <<apart, res>>

\* the gateway's and runPlanner's own state
handling == <<env, pc, body, prompt, overrides, maxMs, intervalMs, elapsed, calls, polls,
              waits, lastStatus, specSeen, upstreamOk, iter, aborted, response, planned,
              res>>

\* what a function taken on its own leaves alone
running == <<env, pc, body, prompt, overrides, maxMs, intervalMs, elapsed, calls, polls,
             waits, lastStatus, specSeen, upstreamOk, iter, aborted, response, planned,
             res, page>>

----------------------------------------------------------------------------
(* Bounds of the model *)

MaxMsgs == 2          \* messages in a list-messages answer
MaxPolls == 5         \* status GETs explored in one gateway invocation
LatencyMs == 2000     \* a status GET answers at once or after this long

----------------------------------------------------------------------------
(* Strings *)

Chars == {" ", "a"}

IsSpace(c) == c \in {" ", "\n"}

RECURSIVE TrimStart(_)
TrimStart(s) ==
    IF s = <<>> THEN <<>>
    ELSE IF IsSpace(Head(s)) THEN TrimStart(Tail(s)) ELSE s

RECURSIVE TrimEnd(_)
TrimEnd(s) ==
    IF s = <<>> THEN <<>>
    ELSE IF IsSpace(s[Len(s)]) THEN TrimEnd(SubSeq(s, 1, Len(s) - 1)) ELSE s

\* String.prototype.trim
Trim(s) == TrimEnd(TrimStart(s))

Blank(s) == Trim(s) = <<>>

\* decimal digits of a non-negative integer, as String(n) writes them
DigitChar(d) ==
    CASE d = 0 -> "0" [] d = 1 -> "1" [] d = 2 -> "2" [] d = 3 -> "3"
      [] d = 4 -> "4" [] d = 5 -> "5" [] d = 6 -> "6" [] d = 7 -> "7"
      [] d = 8 -> "8" [] d = 9 -> "9"

RECURSIVE NumberToString(_)
NumberToString(n) ==
    IF n < 10 THEN <<DigitChar(n)>>
    ELSE Append(NumberToString(n \div 10), DigitChar(n % 10))

IsDigit(c) == c \in {"0", "1", "2", "3", "4", "5", "6", "7", "8", "9"}

DigitValue(c) ==
    CASE c = "0" -> 0 [] c = "1" -> 1 [] c = "2" -> 2 [] c = "3" -> 3
      [] c = "4" -> 4 [] c = "5" -> 5 [] c = "6" -> 6 [] c = "7" -> 7
      [] c = "8" -> 8 [] c = "9" -> 9

RECURSIVE DigitsToNumber(_)
DigitsToNumber(s) ==
    IF s = <<>> THEN 0
    ELSE 10 * DigitsToNumber(SubSeq(s, 1, Len(s) - 1)) + DigitValue(s[Len(s)])

\* a message is empty when every part of it is empty
MessageEmpty(m) == \A i \in 1..Len(m) : m[i] = ""

\* a || b on strings
OrElse(a, b) == IF a # "" THEN a ELSE b

----------------------------------------------------------------------------
(* process.env of the gateway *)

\* an environment variable: unset, or set to a string
Unset == [set |-> FALSE, v |-> <<>>]
SetTo(s) == [set |-> TRUE, v |-> s]

\* !value
Falsy(e) == ~e.set \/ e.v = <<>>

IdValues == {Unset, SetTo(<<>>), SetTo(<<"x">>)}

EndpointValues ==
    {Unset, SetTo(<<"/">>), SetTo(<<"h">>), SetTo(<<"h", "/">>)}

\* RUN_POLL_TIMEOUT_MS and RUN_POLL_INTERVAL_MS as deployed together
PollSettings ==
    { [timeout |-> Unset, interval |-> SetTo(<<"6", "0", "0", "0", "0">>)],
      [timeout |-> SetTo(<<"3", "0", "0", "0">>), interval |-> Unset],
      [timeout |-> SetTo(<<"2", "m", "i", "n">>), interval |-> Unset] }

Environments ==
    { [AZURE_TENANT_ID |-> t, AZURE_CLIENT_ID |-> c, AZURE_CLIENT_SECRET |-> s,
       PROJECT_ENDPOINT |-> e, PROJECT_ID |-> p, AGENT_ID |-> a,
       RUN_POLL_TIMEOUT_MS |-> ps.timeout, RUN_POLL_INTERVAL_MS |-> ps.interval] :
         t \in IdValues, c \in IdValues, s \in IdValues, e \in EndpointValues,
         p \in IdValues, a \in IdValues, ps \in PollSettings }

\* (s || "").replace(/\/+$/, "")
RECURSIVE StripSlashes(_)
StripSlashes(s) ==
    IF s = <<>> THEN <<>>
    ELSE IF s[Len(s)] = "/" THEN StripSlashes(SubSeq(s, 1, Len(s) - 1)) ELSE s

stripTrailingSlash(e) == StripSlashes(IF Falsy(e) THEN <<>> ELSE e.v)

\* the checks without the one of AGENT_ID
MissingButAgent(e) ==
    (IF Falsy(e.AZURE_TENANT_ID) THEN <<"AZURE_TENANT_ID">> ELSE <<>>)
    \o (IF Falsy(e.AZURE_CLIENT_ID) THEN <<"AZURE_CLIENT_ID">> ELSE <<>>)
    \o (IF Falsy(e.AZURE_CLIENT_SECRET) THEN <<"AZURE_CLIENT_SECRET">> ELSE <<>>)
    \o (IF stripTrailingSlash(e.PROJECT_ENDPOINT) = <<>> THEN <<"PROJECT_ENDPOINT">> ELSE <<>>)
    \o (IF Falsy(e.PROJECT_ID) THEN <<"PROJECT_ID">> ELSE <<>>)

\* the names pushed on `missing`, in the order of the checks
Missing(e) ==
    (IF Falsy(e.AZURE_TENANT_ID) THEN <<"AZURE_TENANT_ID">> ELSE <<>>)
    \o (IF Falsy(e.AZURE_CLIENT_ID) THEN <<"AZURE_CLIENT_ID">> ELSE <<>>)
    \o (IF Falsy(e.AZURE_CLIENT_SECRET) THEN <<"AZURE_CLIENT_SECRET">> ELSE <<>>)
    \o (IF stripTrailingSlash(e.PROJECT_ENDPOINT) = <<>> THEN <<"PROJECT_ENDPOINT">> ELSE <<>>)
    \o (IF Falsy(e.PROJECT_ID) THEN <<"PROJECT_ID">> ELSE <<>>)
    \o (IF Falsy(e.AGENT_ID) THEN <<"AGENT_ID">> ELSE <<>>)


DefaultPollTimeoutMs == 120000
DefaultPollIntervalMs == 1500

\* a JavaScript number: NaN, or a non-negative integer
NaN == [nan |-> TRUE, n |-> 0]
Num(n) == [nan |-> FALSE, n |-> n]

\* Number(process.env.X || dflt)
NumberOrDefault(e, dflt) ==
    IF Falsy(e) THEN Num(dflt)
    ELSE IF \A i \in 1..Len(e.v) : IsDigit(e.v[i]) THEN Num(DigitsToNumber(e.v))
    ELSE NaN

\* Date.now() - start > maxMs
TimedOut(ms, limit) == ~limit.nan /\ ms > limit.n

\* the delay of sleep(intervalMs): timers coerce NaN and values below 1 to 1
SleepMs(interval) == IF interval.nan \/ interval.n < 1 THEN 1 ELSE interval.n

----------------------------------------------------------------------------
(* The request body *)

\* a value of a body field
Absent == [t |-> "absent", s |-> "", n |-> 0]
StrVal(s) == [t |-> "string", s |-> s, n |-> 0]
NumVal(n) == [t |-> "number", s |-> "", n |-> n]

Truthy(v) == (v.t = "string" /\ v.s # "") \/ (v.t = "number" /\ v.n # 0)

\* a || b
Or(a, b) == IF Truthy(a) THEN a ELSE b

FieldValues == {Absent, StrVal(""), StrVal("plan"), NumVal(0), NumVal(5)}

\* the fields endpoint and agentId of a body: absent, or set by the caller
NoOverrides == [endpoint |-> Absent, agentId |-> Absent]
CallerOverrides == [endpoint |-> StrVal("evil"), agentId |-> StrVal("evil")]

EmptyObject == [t |-> "object", prompt |-> Absent, input |-> Absent, text |-> Absent,
                other |-> NoOverrides]
JsonNull == [t |-> "null", prompt |-> Absent, input |-> Absent, text |-> Absent,
             other |-> NoOverrides]
JsonScalar == [t |-> "scalar", prompt |-> Absent, input |-> Absent, text |-> Absent,
               other |-> NoOverrides]

JsonObjects == [t : {"object"}, prompt : FieldValues, input : FieldValues, text : FieldValues,
                other : {NoOverrides, CallerOverrides}]

\* req.body: undefined, an object the host already parsed, or a string
Bodies ==
    {[form |-> "undefined", parses |-> TRUE, json |-> EmptyObject]}
    \cup [form : {"object"}, parses : {TRUE}, json : JsonObjects \cup {JsonNull}]
    \cup [form : {"string"}, parses : {TRUE}, json : JsonObjects \cup {JsonNull, JsonScalar}]
    \cup {[form |-> "string", parses |-> FALSE, json |-> EmptyObject]}

\* the body the handler works on: typeof req.body === "string" ?
\*   JSON.parse(req.body || "{}") : (req.body || {})
ParsedBody(b) ==
    IF b.form = "string" THEN b.json
    ELSE IF b.json.t = "null" THEN EmptyObject ELSE b.json

\* body.prompt || body.input || body.text || ""
PromptOf(j) == Or(Or(Or(j.prompt, j.input), j.text), StrVal(""))

\* !prompt || typeof prompt !== "string"
PromptRejected(p) == ~Truthy(p) \/ p.t # "string"

----------------------------------------------------------------------------
(* Responses and errors *)

NoResponse == [status |-> 0, error |-> <<>>, text |-> <<>>]

Error(name, message) == [name |-> name, message |-> message]

\* the catch block of the handler: err?.message || String(err)
CatchResponse(err) ==
    [status |-> 500,
     error |-> IF MessageEmpty(err.message) THEN <<err.name>> ELSE err.message,
     text |-> <<>>]

ValidationResponse ==
                  [status |-> 400,
                   error |-> <<"Missing 'prompt' (string) in request body.">>,
                   text |-> <<>>]

\* missing.join(", "), index.js:191
RECURSIVE Join(_)
Join(names) ==
    IF Len(names) <= 1 THEN names
    ELSE <<Head(names), ", ">> \o Join(Tail(names))

ConfigResponse(missing) ==
    [status |-> 500,
     error |-> <<"Missing required environment variables: ">> \o Join(missing),
     text |-> <<>>]

SuccessResponse(text) == [status |-> 200, error |-> <<>>, text |-> text]

FetchFailed == Error("TypeError", <<"fetch failed">>)

----------------------------------------------------------------------------
(* Messages of a thread, as list-messages returns them *)

\* block.text: absent, a string, or an object that may hold a string `value`
NoText == [kind |-> "absent", value |-> <<>>]
TextString(s) == [kind |-> "string", value |-> s]
TextObject(s) == [kind |-> "object", value |-> s]
TextObjectNoValue == [kind |-> "objectNoValue", value |-> <<>>]

\* a content block; type "" stands for a block without `type`
Block(type, text) == [null |-> FALSE, type |-> type, text |-> text]
NullBlock == [null |-> TRUE, type |-> "", text |-> NoText]

StringContent(s) == [kind |-> "string", text |-> s, blocks |-> <<>>]
ArrayContent(bs) == [kind |-> "array", text |-> <<>>, blocks |-> bs]
\* a content that is neither a string nor an array and is falsy: no content
\* at all, null, 0, false
NoContent == [kind |-> "none", text |-> <<>>, blocks |-> <<>>]

\* a content that is neither a string nor an array and is truthy: an object,
\* a number other than 0, true
OtherContent == [kind |-> "other", text |-> <<>>, blocks |-> <<>>]

Message(role, content) == [role |-> role, content |-> content]

\* the block shapes without the one that has no type
BlockTextTyped(block) ==
    IF block.null THEN <<>>
    ELSE IF block.type = "text" /\ block.text.kind = "string" THEN block.text.value
    ELSE IF block.type = "output_text" /\ block.text.kind = "string" THEN block.text.value
    ELSE IF block.type = "text" /\ block.text.kind = "object" THEN block.text.value
    ELSE <<>>

\* the text one block adds (index.js:40-64)
BlockText(block) ==
    IF block.null THEN <<>>
    ELSE IF block.type = "text" /\ block.text.kind = "string" THEN block.text.value
    ELSE IF block.type = "output_text" /\ block.text.kind = "string" THEN block.text.value
    ELSE IF block.type = "text" /\ block.text.kind = "object" THEN block.text.value
    ELSE IF block.text.kind = "object" THEN block.text.value
    ELSE <<>>

RECURSIVE BlocksText(_)
BlocksText(blocks) ==
    IF blocks = <<>> THEN <<>>
    ELSE BlockText(Head(blocks)) \o BlocksText(Tail(blocks))

\* the role test of the gateway: msg?.role !== "assistant"
IsAssistant(msg) == msg.role = "assistant"

\* what one message adds to `out` (index.js:33-70)
MessageText(msg) ==
    IF ~IsAssistant(msg) THEN <<>>
    ELSE IF msg.content.kind = "array" THEN BlocksText(msg.content.blocks)
    ELSE IF msg.content.kind = "string" THEN msg.content.text
    ELSE <<>>

RECURSIVE Concatenated(_)
Concatenated(messages) ==
    IF messages = <<>> THEN <<>>
    ELSE MessageText(Head(messages)) \o Concatenated(Tail(messages))

\* the text as concatenated, not trimmed
extractUntrimmed(messages) == Concatenated(messages)

extractAssistantText(messages) == Trim(Concatenated(messages))

\* the texts the upstream puts in a block or a string content
PlainText == <<" ", "a", " ">>
BlankText == <<" ">>

SampleBlocks ==
    { Block("text", TextString(PlainText)),
      Block("output_text", TextString(PlainText)),
      Block("text", TextObject(PlainText)),
      Block("", TextObject(PlainText)),
      Block("text", TextString(BlankText)),
      Block("image", NoText),
      NullBlock }

SampleContents ==
    { StringContent(PlainText), StringContent(BlankText), NoContent, OtherContent,
      ArrayContent(<<>>) }
    \cup { ArrayContent(<<b>>) : b \in SampleBlocks }

Roles == {"assistant", "user"}

SampleMessages == { Message(r, c) : r \in Roles, c \in SampleContents }

SeqsUpTo(S, n) == UNION { [1..k -> S] : k \in 0..n }

MessageLists == SeqsUpTo(SampleMessages, MaxMsgs)

----------------------------------------------------------------------------
(* Answers of the upstream services to the gateway's fetch calls *)

\* what every answer carries: fetch rejected, or res.ok / res.status /
\* res.statusText and the body text, which safeJson parses or not
HttpAnswers ==
    { r \in [rejected : BOOLEAN, ok : BOOLEAN, code : {"200", "500"},
             statusText : {"", "Server Error"}, raw : {"", "RAW"}, parses : BOOLEAN] :
        /\ r.rejected => (~r.ok /\ r.code = "500" /\ r.statusText = "" /\ r.raw = "" /\ ~r.parses)
        /\ r.ok <=> r.code = "200"
        /\ r.ok => r.statusText = ""
        /\ r.raw = "" => ~r.parses }

\* the parsed body is read only when the call succeeded and the body parsed
Readable(h) == ~h.rejected /\ h.parses

OkAnswer == [rejected |-> FALSE, ok |-> TRUE, code |-> "200", statusText |-> "",
             raw |-> "RAW", parses |-> TRUE]

\* the answers in which nothing of the parsed body is read
Unread == HttpAnswers \ {OkAnswer}

\* error_description is read when the call failed, access_token when it succeeded
TokenAnswers ==
    { [http |-> h, access_token |-> t, error_description |-> d] :
        h \in HttpAnswers, t \in {"", "tok"}, d \in {"", "invalid_client"} }

IdAnswers ==
    { [http |-> OkAnswer, id |-> i] : i \in {"", "id1"} }
    \cup { [http |-> h, id |-> ""] : h \in Unread }

PlainAnswers == { [http |-> h] : h \in HttpAnswers }

SuccessStatuses == {"completed", "succeeded", "finished"}
FailureStatuses == {"failed", "cancelled", "canceled", "expired", "error"}
PendingStatuses == {"queued", "in_progress"}

Statuses == SuccessStatuses \cup FailureStatuses \cup PendingStatuses \cup {"Completed"}

RunAnswers ==
    { [http |-> OkAnswer, status |-> st, last_error |-> le, error |-> e] :
        st \in Statuses \cup {""}, le \in {"", "rate limit"}, e \in {"", "server error"} }
    \cup { [http |-> h, status |-> "", last_error |-> "", error |-> ""] : h \in Unread }

\* the message list matters only in an answer that succeeded and parsed
ListAnswers ==
    { [http |-> OkAnswer, wrapper |-> "data", list |-> l] : l \in MessageLists }
    \cup { [http |-> OkAnswer, wrapper |-> w, list |-> l] :
             w \in {"messages", "top"}, l \in SeqsUpTo(SampleMessages, 1) }
    \cup { [http |-> h, wrapper |-> "object", list |-> <<>>] : h \in HttpAnswers }

\* listJson?.data || listJson?.messages || listJson || []
\* (an object holding neither key is not iterable)
MessagesOf(a) ==
    IF ~a.http.parses THEN [iterable |-> TRUE, list |-> <<>>]
    ELSE IF a.wrapper = "object" THEN [iterable |-> FALSE, list |-> <<>>]
    ELSE [iterable |-> TRUE, list |-> a.list]

\* `${raw || res.statusText}`
RawOrStatusText(h) == OrElse(h.raw, h.statusText)

UpstreamError(what, h) == Error("Error", <<what, " failed (", h.code, "): ", RawOrStatusText(h)>>)

MissingId(what, h) == Error("Error", <<what, " missing id. Raw: ", OrElse(h.raw, "(empty)")>>)

----------------------------------------------------------------------------
(* History for the properties: which upstream answers are successes *)

\* one of the four documented block shapes, holding a text that is not blank
Documented(block) ==
    /\ ~block.null
    /\ \/ block.type \in {"text", "output_text"} /\ block.text.kind = "string"
       \/ block.type \in {"text", ""} /\ block.text.kind = "object"
    /\ ~Blank(block.text.value)

HoldsAssistantText(list) ==
    \E i \in 1..Len(list) :
        /\ list[i].role = "assistant"
        /\ \/ list[i].content.kind = "string" /\ ~Blank(list[i].content.text)
           \/ /\ list[i].content.kind = "array"
              /\ \E j \in 1..Len(list[i].content.blocks) :
                    Documented(list[i].content.blocks[j])

TokenReturned(a) == a.http = OkAnswer /\ a.access_token # ""

IdReturned(a) == a.http = OkAnswer /\ a.id # ""

Accepted(a) == ~a.http.rejected /\ a.http.ok

\* the run is still going within the ceiling, or reports completed
RunReported(a, ms, limit) ==
    /\ a.http = OkAnswer
    /\ \/ a.status = "completed"
       \/ a.status \in PendingStatuses /\ ~TimedOut(ms, limit)

ListHoldsText(a) ==
    a.http = OkAnswer /\ a.wrapper # "object" /\ HoldsAssistantText(a.list)

----------------------------------------------------------------------------
(* The gateway handler, module.exports of index.js, one step per await *)

\* the locals the handler reads from process.env, index.js:168-175
tenantId == env.AZURE_TENANT_ID.v
clientId == env.AZURE_CLIENT_ID.v
clientSecret == env.AZURE_CLIENT_SECRET.v
projectEndpoint == stripTrailingSlash(env.PROJECT_ENDPOINT)
projectId == env.PROJECT_ID.v

\* the agent the caller asks for, when the body names one
agentIdOrAsked ==
    IF Truthy(overrides.agentId) THEN <<overrides.agentId.s>> ELSE env.AGENT_ID.v

agentId == env.AGENT_ID.v

\* where an outbound call goes and what it carries: the token URL and form
\* (index.js:81-87), the URLs under the project (index.js:127, 204, 220, 236,
\* 271), the message content and the agent of the run
Target(op) ==
    [tenant |-> IF op = "token" THEN tenantId ELSE <<>>,
     client |-> IF op = "token" THEN clientId ELSE <<>>,
     secret |-> IF op = "token" THEN clientSecret ELSE <<>>,
     endpoint |-> IF op # "token" THEN projectEndpoint ELSE <<>>,
     project |-> IF op # "token" THEN projectId ELSE <<>>,
     agent |-> IF op = "run" THEN agentId ELSE <<>>]

Call(op) == [op |-> op, result |-> "pending", target |-> Target(op)]

\* the latest call is answered
Settled(result) == [calls EXCEPT ![Len(calls)].result = result]

\* the next outbound call is issued once the latest one succeeded
ThenCall(op) == Append(Settled("ok"), Call(op))

Min(a, b) == IF a <= b THEN a ELSE b

SpecTerminal(st) == st \in SuccessStatuses \cup FailureStatuses

Observed(st) == IF SpecTerminal(st) THEN Min(specSeen + 1, 2) ELSE specSeen

\* the error leaves the handler and no response is set
ThrowUncaught(err) ==
    /\ response' = NoResponse
    /\ pc' = "done"

\* the catch block answers and the handler returns
Throw(err) ==
    /\ response' = CatchResponse(err)
    /\ pc' = "done"

Return(r) ==
    /\ response' = r
    /\ pc' = "done"

\* index.js:153-196
Invoke(req) ==
    /\ pc = "idle"
    /\ IF req.form = "string" /\ ~req.parses  \* a body cut short, as '{"prompt":'
         THEN /\ Throw(Error("SyntaxError", <<"Unexpected end of JSON input">>))
              /\ UNCHANGED <<calls, body, prompt, overrides>>
       ELSE /\ body' = ParsedBody(req).t
            /\ overrides' = ParsedBody(req).other
            /\ IF ParsedBody(req).t = "null"
                 THEN /\ Throw(Error("TypeError",
                                     <<"Cannot read properties of null (reading 'prompt')">>))
                      /\ UNCHANGED <<calls, prompt>>
               ELSE /\ prompt' = PromptOf(ParsedBody(req))
                    /\ IF PromptRejected(PromptOf(ParsedBody(req)))
                         THEN Return(ValidationResponse) /\ UNCHANGED calls
                       ELSE IF Missing(env) # <<>>
                         THEN Return(ConfigResponse(Missing(env))) /\ UNCHANGED calls
                       ELSE /\ calls' = <<Call("token")>>
                            /\ pc' = "token"
                            /\ UNCHANGED response
    /\ UNCHANGED <<aside, env, maxMs, intervalMs, elapsed, polls, waits,
                   lastStatus, specSeen, upstreamOk, iter, aborted, planned>>

\* getToken, index.js:95-106, then the create-thread fetch, index.js:204-209
getToken(a) ==
    /\ pc = "token"
    /\ IF a.http.rejected
         THEN Throw(FetchFailed) /\ calls' = Settled("failed")
       ELSE IF ~a.http.ok
         THEN /\ Throw(Error("Error",
                   <<"Token request failed (", a.http.code, "). ",
                     OrElse(OrElse(IF a.http.parses THEN a.error_description ELSE "",
                                   a.http.raw), "No details")>>))
              /\ calls' = Settled("failed")
       ELSE IF ~a.http.parses \/ a.access_token = ""
         THEN /\ Throw(Error("Error",
                   <<"Token response missing access_token. Raw: ",
                     OrElse(a.http.raw, "(empty)")>>))
              /\ calls' = Settled("failed")
       ELSE /\ calls' = ThenCall("thread")
            /\ pc' = "thread"
            /\ UNCHANGED response
    /\ upstreamOk' = (upstreamOk /\ TokenReturned(a))
    /\ UNCHANGED <<aside, env, body, prompt, overrides, maxMs, intervalMs, elapsed, polls, waits,
                   lastStatus, specSeen, iter, aborted, planned>>

\* index.js:211-228
CreateThread(a) ==
    /\ pc = "thread"
    /\ IF a.http.rejected
         THEN Throw(FetchFailed) /\ calls' = Settled("failed")
       ELSE IF ~a.http.ok
         THEN Throw(UpstreamError("Create thread", a.http)) /\ calls' = Settled("failed")
       ELSE IF ~a.http.parses \/ a.id = ""
         THEN Throw(MissingId("Create thread", a.http)) /\ calls' = Settled("failed")
       ELSE /\ calls' = ThenCall("message")
            /\ pc' = "message"
            /\ UNCHANGED response
    /\ upstreamOk' = (upstreamOk /\ IdReturned(a))
    /\ UNCHANGED <<aside, env, body, prompt, overrides, maxMs, intervalMs, elapsed, polls, waits,
                   lastStatus, specSeen, iter, aborted, planned>>

\* the run is created whatever res.ok of the add-message call says
AddMessageUnchecked(a) ==
    /\ pc = "message"
    /\ IF a.http.rejected
         THEN Throw(FetchFailed) /\ calls' = Settled("failed")
       ELSE /\ calls' = Append(Settled(IF a.http.ok THEN "ok" ELSE "failed"), Call("run"))
            /\ pc' = "run"
            /\ UNCHANGED response
    /\ upstreamOk' = (upstreamOk /\ Accepted(a))
    /\ UNCHANGED <<aside, env, body, prompt, overrides, maxMs, intervalMs, elapsed, polls, waits,
                   lastStatus, specSeen, iter, aborted, planned>>

\* index.js:230-243
AddMessage(a) ==
    /\ pc = "message"
    /\ IF a.http.rejected
         THEN Throw(FetchFailed) /\ calls' = Settled("failed")
       ELSE IF ~a.http.ok
         THEN Throw(UpstreamError("Add message", a.http)) /\ calls' = Settled("failed")
       ELSE /\ calls' = ThenCall("run")
            /\ pc' = "run"
            /\ UNCHANGED response
    /\ upstreamOk' = (upstreamOk /\ Accepted(a))
    /\ UNCHANGED <<aside, env, body, prompt, overrides, maxMs, intervalMs, elapsed, polls, waits,
                   lastStatus, specSeen, iter, aborted, planned>>

\* index.js:245-254 and the entry of waitForRunCompletion, index.js:120-128
CreateRun(a) ==
    /\ pc = "run"
    /\ IF a.http.rejected
         THEN /\ Throw(FetchFailed) /\ calls' = Settled("failed")
              /\ UNCHANGED <<maxMs, intervalMs, polls>>
       ELSE IF ~a.http.ok
         THEN /\ Throw(UpstreamError("Create run", a.http)) /\ calls' = Settled("failed")
              /\ UNCHANGED <<maxMs, intervalMs, polls>>
       ELSE IF ~a.http.parses \/ a.id = ""
         THEN /\ Throw(MissingId("Create run", a.http)) /\ calls' = Settled("failed")
              /\ UNCHANGED <<maxMs, intervalMs, polls>>
       ELSE /\ maxMs' = NumberOrDefault(env.RUN_POLL_TIMEOUT_MS, DefaultPollTimeoutMs)
            /\ intervalMs' = NumberOrDefault(env.RUN_POLL_INTERVAL_MS, DefaultPollIntervalMs)
            /\ calls' = ThenCall("poll")
            /\ polls' = 1
            /\ pc' = "poll"
            /\ UNCHANGED response
    /\ upstreamOk' = (upstreamOk /\ IdReturned(a))
    /\ UNCHANGED <<aside, env, body, prompt, overrides, elapsed, waits, lastStatus, specSeen,
                   iter, aborted, planned>>

\* the statuses that end the loop of waitForRunCompletion, index.js:140
TerminalStatuses == {"completed", "failed", "cancelled", "expired"}

IsTerminal(st) == st \in TerminalStatuses

\* index.js:263-266
RunFailedMessage(a) ==
    IF a.last_error # "" THEN <<a.last_error>>
    ELSE IF a.error # "" THEN <<a.error>>
    ELSE <<"Run ended with status: ", a.status>>

\* the iteration with the test of the ceiling before the test of the status
PollOutcomeCeilingFirst(a, ms, limit) ==
    IF a.http.rejected THEN "rejected"
    ELSE IF ~a.http.ok THEN "http"
    ELSE IF ~a.http.parses \/ a.status = "" THEN "missing"
    ELSE IF TimedOut(ms, limit) THEN "timeout"
    ELSE IF IsTerminal(a.status) THEN "terminal"
    ELSE "sleep"

\* what one iteration of the loop of waitForRunCompletion does with the answer
\* to its status GET, given Date.now() - start (index.js:129-148)
PollOutcome(a, ms, limit) ==
    IF a.http.rejected THEN "rejected"
    ELSE IF ~a.http.ok THEN "http"
    ELSE IF ~a.http.parses \/ a.status = "" THEN "missing"
    ELSE IF IsTerminal(a.status) THEN "terminal"
    ELSE IF TimedOut(ms, limit) THEN "timeout"
    ELSE "sleep"

PollError(a, outcome, limit) ==
    CASE outcome = "rejected" -> FetchFailed
      [] outcome = "http" -> UpstreamError("Run status", a.http)
      [] outcome = "missing" ->
            Error("Error", <<"Run status missing. Raw: ", OrElse(a.http.raw, "(empty)")>>)
      [] outcome = "timeout" ->
            Error("Error", <<"Run polling timed out after ">> \o NumberToString(limit.n)
                              \o <<"ms. Last status: ", a.status>>)
      [] OTHER -> Error("Error", RunFailedMessage(a))

\* finalRun?.status !== "completed", index.js:262
RunCompleted(a) == a.status = "completed"

\* the answer to a status GET: index.js:129-148, and on return index.js:262-272
PollAnswer(a, latency) ==
    /\ pc = "poll"
    /\ LET outcome == PollOutcome(a, elapsed + latency, maxMs)
           seen == outcome \in {"terminal", "timeout", "sleep"}
       IN /\ lastStatus' = IF seen THEN a.status ELSE ""
          /\ specSeen' = IF seen THEN Observed(a.status) ELSE specSeen
          /\ waits' = IF outcome = "sleep" THEN Min(waits + 1, polls) ELSE waits
          /\ IF outcome = "sleep"
               THEN /\ pc' = "sleep"
                    /\ calls' = Settled("ok")
                    /\ UNCHANGED response
             ELSE IF outcome = "terminal" /\ RunCompleted(a)
               THEN /\ pc' = "list"
                    /\ calls' = ThenCall("list")
                    /\ UNCHANGED response
             ELSE /\ Throw(PollError(a, outcome, maxMs))
                  /\ calls' = Settled(IF seen THEN "ok" ELSE "failed")
          /\ elapsed' = IF outcome = "terminal"  \* the loop has returned: late or not
                          THEN IF TimedOut(elapsed + latency, maxMs) THEN maxMs.n + 1 ELSE 0
                        ELSE IF maxMs.nan /\ polls = MaxPolls THEN elapsed
                        ELSE elapsed + latency
    /\ upstreamOk' = (upstreamOk /\ RunReported(a, elapsed + latency, maxMs))
    /\ UNCHANGED <<aside, env, body, prompt, overrides, maxMs, intervalMs, polls, iter, aborted, planned>>

\* sleep(intervalMs) is over and the loop issues the next status GET, index.js:148, 128
SleepDone ==
    /\ pc = "sleep"
    /\ IF polls < MaxPolls
         THEN /\ elapsed' = elapsed + SleepMs(intervalMs)
              /\ polls' = polls + 1
              /\ calls' = Append(calls, Call("poll"))
       ELSE \* polls and the log stand for "MaxPolls or more" from here on
            /\ elapsed' = IF maxMs.nan THEN elapsed ELSE elapsed + SleepMs(intervalMs)
            /\ polls' = polls
            /\ calls' = [calls EXCEPT ![Len(calls)] = Call("poll")]
    /\ pc' = "poll"
    /\ UNCHANGED <<aside, env, body, prompt, overrides, maxMs, intervalMs, waits, lastStatus,
                   specSeen, upstreamOk, iter, aborted, response, planned>>

\* index.js:274-293
ListMessages(a) ==
    /\ pc = "list"
    /\ IF a.http.rejected
         THEN Throw(FetchFailed) /\ calls' = Settled("failed")
       ELSE IF ~a.http.ok
         THEN Throw(UpstreamError("List messages", a.http)) /\ calls' = Settled("failed")
       ELSE IF ~MessagesOf(a).iterable
         THEN /\ Throw(Error("TypeError", <<"(messages || []) is not iterable">>))
              /\ calls' = Settled("ok")
       ELSE IF extractAssistantText(MessagesOf(a).list) = <<>>
         THEN /\ Throw(Error("Error", <<"No assistant text found in messages response.">>))
              /\ calls' = Settled("ok")
       ELSE /\ Return(SuccessResponse(extractAssistantText(MessagesOf(a).list)))
            /\ calls' = Settled("ok")
    /\ upstreamOk' = (upstreamOk /\ ListHoldsText(a))
    /\ UNCHANGED <<aside, env, body, prompt, overrides, maxMs, intervalMs, elapsed, polls, waits,
                   lastStatus, specSeen, iter, aborted, planned>>

\* the host has sent the response; the function can be invoked again
\* (index.js keeps nothing between invocations)
ResponseSent ==
    /\ pc = "done"
    /\ pc' = "idle"
    /\ body' = "unset"
    /\ prompt' = Absent
    /\ overrides' = NoOverrides
    /\ upstreamOk' = TRUE
    /\ maxMs' = Num(0)
    /\ intervalMs' = Num(0)
    /\ elapsed' = 0
    /\ calls' = <<>>
    /\ polls' = 0
    /\ waits' = 0
    /\ lastStatus' = ""
    /\ specSeen' = 0
    /\ response' = NoResponse
    /\ UNCHANGED <<aside, env, iter, aborted, planned>>

----------------------------------------------------------------------------
(* runPlanner of the browser script that calls the agent service itself,  *)
(* app.js:68-120, one step per await: two for each apiFetch, the fetch and *)
(* the read of the body, with the Stop click possible in between           *)

PollIterations == 60

NotPlanned == [kind |-> "none", text |-> <<>>, error |-> <<>>]
Planned(text) == [kind |-> "text", text |-> text, error |-> <<>>]
Failed(message) == [kind |-> "error", text |-> <<>>, error |-> message]

\* an answer 200 whose body is the JSON text null
NullBody == [rejected |-> FALSE, ok |-> TRUE, code |-> "200", statusText |-> "",
             raw |-> "null", parses |-> TRUE]

IsNull(a) == a.http = NullBody

\* thread.id || thread.threadId || thread.thread_id
DirectIdAnswers ==
    { [http |-> OkAnswer, id |-> i, camelId |-> c, snake_id |-> n] :
        i \in {"", "id1"}, c \in {"", "id2"}, n \in {"", "id3"} }
    \cup { [http |-> h, id |-> "", camelId |-> "", snake_id |-> ""] : h \in Unread \cup {NullBody} }

AnyId(a) == OrElse(OrElse(a.id, a.camelId), a.snake_id)

DirectPlainAnswers == { [http |-> h] : h \in HttpAnswers \cup {NullBody} }

\* s.status || s.state
DirectRunAnswers ==
    { [http |-> OkAnswer, status |-> st, state |-> se] :
        st \in Statuses \cup {""}, se \in {"", "finished", "failed"} }
    \cup { [http |-> h, status |-> "", state |-> ""] : h \in Unread \cup {NullBody} }

DirectListAnswers ==
    { [http |-> OkAnswer, wrapper |-> w, list |-> l] :
        w \in {"data", "messages", "top"}, l \in MessageLists }
    \cup { [http |-> h, wrapper |-> "top", list |-> <<>>] : h \in Unread \cup {NullBody} }

ToLowerCase(st) ==
    CASE st = "Completed" -> "completed"
      [] st \in {"Assistant", "ASSISTANT"} -> "assistant"
      [] OTHER -> st

\* what `await fetch(...)` of app.js:71 gives: a rejection, or a Response
\* with its ok, status and statusText; the body is read by a second await
Responses ==
    { [rejected |-> h.rejected, ok |-> h.ok, code |-> h.code, statusText |-> h.statusText] :
        h \in HttpAnswers }

NoRes == [ok |-> FALSE, code |-> "", statusText |-> ""]

\* the body that arrives belongs to the Response apiFetch holds
BodyOf(http) ==
    /\ res # NoRes
    /\ ~http.rejected
    /\ res = [ok |-> http.ok, code |-> http.code, statusText |-> http.statusText]

\* what a rejected fetch throws: the AbortError once Stop was clicked, the
\* network error otherwise
FetchRejection ==
    IF aborted THEN <<"The user aborted a request.">> ELSE <<"Failed to fetch">>

\* apiFetch past its fetch, app.js:72-76: it throws when the status is not
\* ok, when the read of the body is aborted and when the body is no JSON
ApiFetchThrows(http) == ~http.ok \/ aborted \/ ~http.parses

\* what it throws: its own Error for a status that is not ok (with '' for a
\* body whose read rejected, app.js:73), the AbortError or the SyntaxError
\* of res.json()
ApiFetchError(http) ==
    IF ~http.ok
      THEN <<"API ", http.code, ": ", OrElse(IF aborted THEN "" ELSE http.raw, http.statusText)>>
    ELSE IF aborted THEN <<"The user aborted a request.">>
    ELSE IF http.raw = "" THEN <<"Unexpected end of JSON input">>
    ELSE <<"Unexpected token 'R', \"RAW\" is not valid JSON">>

\* runPlanner throws to the submit handler
Raise(message) ==
    /\ planned' = Failed(message)
    /\ pc' = "done"

\* window.MEALPLANNER_CONFIG: whether it is there, and whether its endpoint
\* and agentId are truthy
NoConfig == [present |-> FALSE, endpoint |-> FALSE, agentId |-> FALSE]
FullConfig == [present |-> TRUE, endpoint |-> TRUE, agentId |-> TRUE]
Configs == {NoConfig} \cup [present : {TRUE}, endpoint : BOOLEAN, agentId : BOOLEAN]

\* validateConfig, app.js:164-167 and 402-405: what it throws, <<>> when it
\* returns
validateConfig(s, c) ==
    IF s = "direct"
      THEN IF ~c.present \/ ~c.endpoint THEN <<"Missing endpoint in config.js">>
           ELSE IF ~c.agentId THEN <<"Missing agentId in config.js">>
           ELSE <<>>
    ELSE IF ~c.present THEN <<"Missing MEALPLANNER_CONFIG in config.js">>
    ELSE <<>>

\* the submit handler up to its first await, app.js:174-196, 80: it ends in
\* its catch when validateConfig throws, and calls runPlanner otherwise
Submit ==
    /\ pc = "idle"
    /\ aborted' = FALSE
    /\ IF validateConfig(script, cfg) # <<>>
         THEN /\ Raise(validateConfig(script, cfg))
              /\ UNCHANGED calls
       ELSE /\ calls' = <<Call("thread")>>
            /\ pc' = "thread"
            /\ UNCHANGED planned
    /\ UNCHANGED <<apart, res, env, body, prompt, overrides, maxMs, intervalMs, elapsed, polls,
                   waits, lastStatus, specSeen, upstreamOk, iter, response>>

\* btnStop, app.js:210
Stop ==
    /\ pc \notin {"idle", "done"}
    /\ ~aborted
    /\ aborted' = TRUE
    /\ UNCHANGED <<apart, res, env, pc, body, prompt, overrides, maxMs, intervalMs, elapsed,
                   calls, polls, waits, lastStatus, specSeen, upstreamOk, iter, response,
                   planned>>

\* app.js:71: the fetch of apiFetch settles. Under an aborted signal it
\* rejects; a rejection is thrown to runPlanner, which lets it through to
\* the submit handler except inside the try of the poll loop (app.js:96-101)
DirectResponse(r) ==
    /\ pc \in {"thread", "message", "run", "poll", "list"}
    /\ res = NoRes
    /\ IF aborted \/ r.rejected
         THEN IF pc = "poll"
                THEN /\ lastStatus' = ""
                     /\ specSeen' = Observed("")
                     /\ calls' = Settled("ok")
                     /\ waits' = waits + 1
                     /\ pc' = "sleep"
                     /\ UNCHANGED <<planned, res>>
              ELSE /\ Raise(FetchRejection)
                   /\ calls' = Settled("failed")
                   /\ UNCHANGED <<lastStatus, specSeen, waits, res>>
       ELSE /\ res' = [ok |-> r.ok, code |-> r.code, statusText |-> r.statusText]
            /\ UNCHANGED <<pc, planned, calls, lastStatus, specSeen, waits>>
    /\ UNCHANGED <<apart, env, body, prompt, overrides, maxMs, intervalMs, elapsed, polls,
                   upstreamOk, iter, aborted, response>>

\* app.js:80-87, from the body of the answer on
DirectThread(a) ==
    /\ pc = "thread"
    /\ BodyOf(a.http)
    /\ res' = NoRes
    /\ IF ApiFetchThrows(a.http)
         THEN Raise(ApiFetchError(a.http)) /\ calls' = Settled("failed")
       ELSE IF IsNull(a)
         THEN /\ Raise(<<"Cannot read properties of null (reading 'id')">>)
              /\ calls' = Settled("failed")
       ELSE IF AnyId(a) = ""
         THEN Raise(<<"Thread id not found">>) /\ calls' = Settled("failed")
       ELSE /\ calls' = ThenCall("message")
            /\ pc' = "message"
            /\ UNCHANGED planned
    /\ UNCHANGED <<apart, env, body, prompt, overrides, maxMs, intervalMs, elapsed, polls, waits,
                   lastStatus, specSeen, upstreamOk, iter, aborted, response>>

\* app.js:84-89, from the body of the answer on; the answer is not read
DirectMessage(a) ==
    /\ pc = "message"
    /\ BodyOf(a.http)
    /\ res' = NoRes
    /\ IF ApiFetchThrows(a.http)
         THEN Raise(ApiFetchError(a.http)) /\ calls' = Settled("failed")
       ELSE /\ calls' = ThenCall("run")
            /\ pc' = "run"
            /\ UNCHANGED planned
    /\ UNCHANGED <<apart, env, body, prompt, overrides, maxMs, intervalMs, elapsed, polls, waits,
                   lastStatus, specSeen, upstreamOk, iter, aborted, response>>

\* app.js:89-97, from the body of the answer on: the run is created (its id
\* may be undefined) and the loop starts
DirectRun(a) ==
    /\ pc = "run"
    /\ BodyOf(a.http)
    /\ res' = NoRes
    /\ IF ApiFetchThrows(a.http)
         THEN /\ Raise(ApiFetchError(a.http)) /\ calls' = Settled("failed")
              /\ UNCHANGED polls
       ELSE IF IsNull(a)
         THEN /\ Raise(<<"Cannot read properties of null (reading 'id')">>)
              /\ calls' = Settled("failed")
              /\ UNCHANGED polls
       ELSE /\ calls' = ThenCall("poll")
            /\ polls' = 1
            /\ pc' = "poll"
            /\ UNCHANGED planned
    /\ UNCHANGED <<apart, env, body, prompt, overrides, maxMs, intervalMs, elapsed, waits,
                   lastStatus, specSeen, upstreamOk, iter, aborted, response>>

\* the status the loop reads, "" when the GET threw: app.js:97-98
DirectStatus(a) ==
    IF ApiFetchThrows(a.http) \/ IsNull(a) THEN ""
    ELSE ToLowerCase(OrElse(a.status, a.state))

\* app.js:99: the statuses that leave the loop
Breaks(st) == st \in {"completed", "succeeded", "finished"}

\* app.js:97-106: the body of the answer to the status GET of one iteration;
\* every throw inside the try is caught and ignored
DirectPoll(answer) ==
    /\ pc = "poll"
    /\ BodyOf(answer.http)
    /\ res' = NoRes
    /\ LET st == DirectStatus(answer)
       IN /\ lastStatus' = st
          /\ specSeen' = Observed(st)
          /\ IF Breaks(st)
               THEN /\ calls' = ThenCall("list")
                    /\ pc' = "list"
                    /\ UNCHANGED waits
             ELSE /\ calls' = Settled("ok")
                  /\ waits' = waits + 1
                  /\ pc' = "sleep"
    /\ UNCHANGED <<apart, env, body, prompt, overrides, maxMs, intervalMs, elapsed, polls,
                   upstreamOk, iter, aborted, response, planned>>

\* app.js:103, 94-97: sleep(2000) is over, i++, and the loop goes on or ends
DirectSleepDone ==
    /\ pc = "sleep"
    /\ iter' = iter + 1
    /\ IF iter' < PollIterations
         THEN IF aborted
                THEN /\ Raise(<<"Cancelled">>)
                     /\ UNCHANGED <<calls, polls>>
              ELSE /\ calls' = Append(calls, Call("poll"))
                   /\ polls' = polls + 1
                   /\ pc' = "poll"
                   /\ UNCHANGED planned
       ELSE /\ calls' = Append(calls, Call("list"))
            /\ pc' = "list"
            /\ UNCHANGED <<polls, planned>>
    /\ UNCHANGED <<apart, res, env, body, prompt, overrides, maxMs, intervalMs, elapsed, waits,
                   lastStatus, specSeen, upstreamOk, aborted, response>>

\* msgs.data || msgs.messages || []
DirectMessagesOf(a) == IF a.wrapper \in {"data", "messages"} THEN a.list ELSE <<>>

\* (m.role||'').toLowerCase()==='assistant'
DirectIsAssistant(msg) == ToLowerCase(msg.role) = "assistant"

RECURSIVE Find(_)
Find(data) ==
    IF data = <<>> THEN <<>>
    ELSE IF DirectIsAssistant(Head(data)) THEN <<Head(data)>> ELSE Find(Tail(data))

\* data.find(...) || data[data.length-1], as a list of at most one message
Chosen(data) ==
    IF Find(data) # <<>> THEN Find(data)
    ELSE IF data = <<>> THEN <<>> ELSE <<data[Len(data)]>>

\* (assistant && assistant.content) ? assistant.content : [] keeps every
\* truthy content and takes [] for a falsy one, and `for (const p of parts)`
\* (app.js:111) throws on a truthy one that is neither a string nor an array
PartsIterable(chosen) == chosen = <<>> \/ chosen[1].content.kind # "other"

\* the parts the loop goes through
\* (the characters of a string content have no type and add nothing)
Parts(chosen) ==
    IF chosen = <<>> THEN <<>>
    ELSE IF chosen[1].content.kind = "array" THEN chosen[1].content.blocks
    ELSE <<>>

\* app.js:112-115
PartText(p) ==
    IF p.type = "text" /\ p.text.kind = "string" THEN p.text.value \o <<"\n">>
    ELSE IF p.type = "text" /\ p.text.kind = "object" THEN p.text.value \o <<"\n">>
    ELSE <<>>

RECURSIVE PartsText(_)
PartsText(parts) ==
    IF parts = <<>> THEN <<>>
    ELSE PartText(Head(parts)) \o PartsText(Tail(parts))

\* p.type of a null part throws
PartsThrow(parts) == \E i \in 1..Len(parts) : parts[i].null

DirectText(data) == Trim(PartsText(Parts(Chosen(data))))

\* app.js:106-119, from the body of the answer on
DirectList(a) ==
    /\ pc = "list"
    /\ BodyOf(a.http)
    /\ res' = NoRes
    /\ IF ApiFetchThrows(a.http)
         THEN Raise(ApiFetchError(a.http)) /\ calls' = Settled("failed")
       ELSE IF IsNull(a)
         THEN /\ Raise(<<"Cannot read properties of null (reading 'data')">>)
              /\ calls' = Settled("ok")
       ELSE IF ~PartsIterable(Chosen(DirectMessagesOf(a)))
         THEN Raise(<<"parts is not iterable">>) /\ calls' = Settled("ok")
       ELSE IF PartsThrow(Parts(Chosen(DirectMessagesOf(a))))
         THEN /\ Raise(<<"Cannot read properties of null (reading 'type')">>)
              /\ calls' = Settled("ok")
       ELSE IF DirectText(DirectMessagesOf(a)) = <<>>
         THEN Raise(<<"No assistant text returned">>) /\ calls' = Settled("ok")
       ELSE /\ planned' = Planned(DirectText(DirectMessagesOf(a)))
            /\ pc' = "done"
            /\ calls' = Settled("ok")
    /\ UNCHANGED <<apart, env, body, prompt, overrides, maxMs, intervalMs, elapsed, polls, waits,
                   lastStatus, specSeen, upstreamOk, iter, aborted, response>>

----------------------------------------------------------------------------
(* Text extraction on its own: extractAssistantText of the gateway and the *)
(* extraction of runPlanner, app.js:107-117, applied to one message list   *)

MaxListed == 2

ListedTexts == {<<>>, <<"a">>, <<" ", "a", "\n">>}

ListedBlocks ==
    { Block(type, text) :
        type \in {"text", "output_text", ""},
        text \in {TextString(t) : t \in ListedTexts} \cup {TextObject(t) : t \in ListedTexts} }

ListedContents ==
    { StringContent(t) : t \in ListedTexts } \cup { ArrayContent(<<b>>) : b \in ListedBlocks }

ListedRoles == {"assistant", "Assistant", "ASSISTANT", "user"}

ListedMessages == { Message(r, c) : r \in ListedRoles, c \in ListedContents }

Listed == SeqsUpTo(ListedMessages, MaxListed)

\* app.js:107-117: the text, or the TypeError of the loop over the parts or
\* of reading p.type
DirectThrows(data) == ~PartsIterable(Chosen(data)) \/ PartsThrow(Parts(Chosen(data)))

DirectExtract(data) ==
    [throws |-> DirectThrows(data),
     text |-> IF DirectThrows(data) THEN <<>> ELSE DirectText(data)]

Extract(messages) ==
    /\ fn = ""
    /\ fn' = "extract"
    /\ arg' = messages
    /\ ret' = [gateway |-> extractAssistantText(messages), direct |-> DirectExtract(messages)]
    /\ UNCHANGED running

----------------------------------------------------------------------------
(* splitGroceryList, app.js:138-144 and 368-374.  A text is the sequence of *)
(* its lines (the text split at "\n"), so that the empty text is <<"">> and *)
(* a text ending in "\n" has "" as its last line.                           *)

MaxLines == 3

Lines == {"Day 1", "Grocery List:", "ingredients", "SHOPPING LIST -", "Ingredients: milk", ""}

Texts == UNION { [1..k -> Lines] : k \in 1..MaxLines }

\* \s*(grocery list|shopping list|ingredients)\s*[:\-]?\s* over a whole line, /i
IsHeading(line) == line \in {"Grocery List:", "ingredients", "SHOPPING LIST -"}

\* the lines where the expression matches: a "\n" before the line, a "\n" after it
Matches(text) == {k \in 2..Len(text) - 1 : IsHeading(text[k])}

RECURSIVE DropBlankHead(_)
DropBlankHead(text) ==
    IF text = <<>> THEN <<>>
    ELSE IF Head(text) = "" THEN DropBlankHead(Tail(text)) ELSE text

RECURSIVE DropBlankEnd(_)
DropBlankEnd(text) ==
    IF text = <<>> THEN <<>>
    ELSE IF text[Len(text)] = "" THEN DropBlankEnd(SubSeq(text, 1, Len(text) - 1)) ELSE text

\* String.prototype.trim of a text whose lines have no outer blanks
TrimText(text) ==
    IF DropBlankEnd(DropBlankHead(text)) = <<>> THEN <<"">>
    ELSE DropBlankEnd(DropBlankHead(text))

splitGroceryList(text) ==
    IF Matches(text) = {} THEN [plan |-> text, grocery |-> <<"">>]
    ELSE LET k == CHOOSE m \in Matches(text) : \A n \in Matches(text) : m <= n
         IN [plan |-> TrimText(SubSeq(text, 1, k - 1)),
             grocery |-> TrimText(SubSeq(text, k, Len(text)))]

Split(text) ==
    /\ fn = ""
    /\ fn' = "split"
    /\ arg' = text
    /\ ret' = splitGroceryList(text)
    /\ UNCHANGED running

----------------------------------------------------------------------------
(* parseCartItemsFromText, app.js:56-66 and 295-306.  A text is a sequence *)
(* of tokens separated by blanks: product identifiers, quantities, other   *)
(* words and line ends.                                                    *)

MaxTokens == 4

IdTokens == {"B07CVZRZTC", "b07cvzrztc", "B08AAAAAAA"}

QtyTokens == {"x2", "qty: 3"}

Tokens == IdTokens \cup QtyTokens \cup {"and", "\n"}

TokenTexts == UNION { [1..k -> Tokens] : k \in 0..MaxTokens }

\* m[1].toUpperCase()
ToUpperCase(id) == IF id = "b07cvzrztc" THEN "B07CVZRZTC" ELSE id

\* parseInt(m[3], 10)
ParseInt(q) == IF q = "x2" THEN 2 ELSE 3

\* the optional group of the expression, from the identifier at i:
\* [^\n\r]*? up to the first quantity of the line; 0 when the line has none
QuantityAfter(text, i) ==
    LET found == {j \in i + 1..Len(text) :
                     /\ text[j] \in QtyTokens
                     /\ \A k \in i + 1..j - 1 : text[k] # "\n" /\ text[k] \notin QtyTokens}
    IN IF found = {} THEN 0 ELSE CHOOSE j \in found : TRUE

\* counts.set(asin, (counts.get(asin) || 0) + qty), entries in insertion order
Counted(counts, asin, qty) ==
    IF \E n \in 1..Len(counts) : counts[n].asin = asin
      THEN [n \in 1..Len(counts) |->
              IF counts[n].asin = asin THEN [asin |-> asin, qty |-> counts[n].qty + qty]
              ELSE counts[n]]
    ELSE Append(counts, [asin |-> asin, qty |-> qty])

\* the loop of re.exec from lastIndex i
RECURSIVE Scanned(_, _, _)
Scanned(text, i, counts) ==
    IF i > Len(text) THEN counts
    ELSE IF text[i] \notin IdTokens THEN Scanned(text, i + 1, counts)
    ELSE IF QuantityAfter(text, i) = 0
      THEN Scanned(text, i + 1, Counted(counts, ToUpperCase(text[i]), 1))
    ELSE Scanned(text, QuantityAfter(text, i) + 1,
                 Counted(counts, ToUpperCase(text[i]), ParseInt(text[QuantityAfter(text, i)])))

parseCartItemsFromText(text) == Scanned(text, 1, <<>>)

ParseCart(text) ==
    /\ fn = ""
    /\ fn' = "cart"
    /\ arg' = text
    /\ ret' = parseCartItemsFromText(text)
    /\ UNCHANGED running

----------------------------------------------------------------------------
(* The browser script that calls the gateway, app.js:225-487 *)

\* runPlanner, app.js:310-314: the body posted to /api/plan
Payload(userText) == [prompt |-> userText]

----------------------------------------------------------------------------
(* The page under its events. app.js:1-222 is the script that calls the     *)
(* agent service itself ("direct"), app.js:225-487 the one that calls the   *)
(* gateway ("proxy"). Every submit starts a generation; a generation is at  *)
(* a pending fetch, at its poll timer, or over.                             *)

MaxGenerations == 2   \* submits explored
MaxRounds == 2        \* poll rounds of one generation that are told apart

Scripts == {"direct", "proxy"}

\* let abort = new AbortController(), app.js:19, 246
PageLoaded ==
    /\ abort = 0
    /\ abortedSignals = {}
    /\ generations = <<>>
    /\ generating = FALSE
    /\ out = [kind |-> "empty", of |-> 0]
    /\ localStorage = 0

Fetching == {"thread", "message", "run", "poll", "list", "plan"}

InFlight(gen) == gen.pc \in Fetching \union {"sleep"}

\* the pending fetch of a generation rejects: in the poll loop the catch of
\* app.js:101 swallows it and the loop goes to its sleep, elsewhere the
\* exception reaches the catch of the submit handler
Rejected(gen) ==
    IF gen.pc = "poll" THEN [gen EXCEPT !.pc = "sleep"] ELSE [gen EXCEPT !.pc = "failed"]

\* fetch(url, {..., signal: abort.signal}), app.js:71, 318-323: the signal is
\* the one of the controller `abort` holds when the fetch is issued; under
\* an aborted signal the fetch rejects at once
Fetch(gen, op) ==
    LET issued == [gen EXCEPT !.pc = op, !.signal = abort]
    IN IF abort \in abortedSignals THEN Rejected(issued) ELSE issued

\* top of the loop body, app.js:95-97
LoopTop(gen) ==
    IF abort \in abortedSignals THEN [gen EXCEPT !.pc = "failed"]  \* 'Cancelled'
    ELSE Fetch(gen, "poll")

\* what the handlers that ended in this step leave on the page: setOutput
\* (app.js:150-162) or the catch block, then setGenerating(false)
Shown(before, after) ==
    LET ended == {g \in 1..Len(after) : InFlight(before[g]) /\ ~InFlight(after[g])}
    IN /\ generating' = IF ended = {} THEN generating ELSE FALSE
       /\ IF ended = {}
            THEN UNCHANGED <<out, localStorage>>
          ELSE \E g \in ended :
                 /\ out' = [kind |-> after[g].pc, of |-> g]
                 /\ localStorage' = IF after[g].pc = "rendered" THEN g ELSE localStorage

\* the submit handler up to its first await, app.js:174-196, 80 and 412-443,
\* 318; when validateConfig throws the handler is over within the event: its
\* catch shows the error and its finally enables btnGenerate again
PageSubmit ==
    /\ ~generating
    /\ Len(generations) < MaxGenerations
    /\ abort' = abort + 1
    /\ IF validateConfig(script, cfg) # <<>>
         THEN /\ generating' = FALSE
              /\ out' = [kind |-> "failed", of |-> Len(generations) + 1]
              /\ generations' = Append(generations,
                                       [pc |-> "failed", signal |-> abort',
                                        stopped |-> FALSE, i |-> 0])
       ELSE /\ generating' = TRUE
            /\ out' = [kind |-> "generating", of |-> Len(generations) + 1]
            /\ generations' = Append(generations,
                                     [pc |-> IF script = "direct" THEN "thread" ELSE "plan",
                                      signal |-> abort', stopped |-> FALSE, i |-> 0])
    /\ UNCHANGED <<handling, fn, arg, ret, script, cfg, abortedSignals, localStorage>>

\* btnStop, app.js:210, 461-465: abort.abort() rejects the fetches pending
\* under the signal, and their handlers run before the next event
PageStop ==
    /\ generating
    /\ abortedSignals' = abortedSignals \union {abort}
    /\ LET after == [g \in 1..Len(generations) |->
                       LET gen == generations[g]
                       IN IF ~InFlight(gen) THEN gen
                          ELSE IF gen.pc \in Fetching /\ gen.signal = abort
                            THEN Rejected([gen EXCEPT !.stopped = TRUE])
                          ELSE [gen EXCEPT !.stopped = TRUE]]
           ended == {g \in 1..Len(after) : InFlight(generations[g]) /\ ~InFlight(after[g])}
       IN /\ generations' = after
          /\ generating' = FALSE
          /\ IF ended = {} THEN out' = out
             ELSE \E g \in ended : out' = [kind |-> "failed", of |-> g]
    /\ UNCHANGED <<handling, fn, arg, ret, script, cfg, abort, localStorage>>

\* what a generation does when its pending fetch is answered, up to its next
\* await: app.js:80-118 and 318-345. ok: the answer lets runPlanner go on
\* (for the status GET: a status of the completed kind; for the listing and
\* for /api/plan: a text)
Answered(gen, ok) ==
    IF gen.pc = "poll"
      THEN IF ok THEN Fetch(gen, "list") ELSE [gen EXCEPT !.pc = "sleep"]
    ELSE IF ~ok THEN [gen EXCEPT !.pc = "failed"]
    ELSE CASE gen.pc = "thread" -> Fetch(gen, "message")
           [] gen.pc = "message" -> Fetch(gen, "run")
           [] gen.pc = "run" -> LoopTop(gen)
           [] gen.pc \in {"list", "plan"} -> [gen EXCEPT !.pc = "rendered"]

\* a fetch response arrives
Settle(g, ok) ==
    /\ g \in 1..Len(generations)
    /\ generations[g].pc \in Fetching
    /\ generations' = [generations EXCEPT ![g] = Answered(generations[g], ok)]
    /\ Shown(generations, generations')
    /\ UNCHANGED <<handling, fn, arg, ret, script, cfg, abort, abortedSignals>>

\* sleep(2000) of app.js:103 is over: i++, and the loop goes on or ends. From
\* MaxRounds on, i stands for any of the counts up to 60, the last included
Timer(g) ==
    /\ g \in 1..Len(generations)
    /\ generations[g].pc = "sleep"
    /\ LET gen == [generations[g] EXCEPT !.i = Min(@ + 1, MaxRounds)]
       IN \/ /\ gen.i < PollIterations
             /\ generations' = [generations EXCEPT ![g] = LoopTop(gen)]
          \/ /\ gen.i = MaxRounds \/ gen.i >= PollIterations
             /\ generations' = [generations EXCEPT ![g] = Fetch(gen, "list")]
    /\ Shown(generations, generations')
    /\ UNCHANGED <<handling, fn, arg, ret, script, cfg, abort, abortedSignals>>

----------------------------------------------------------------------------
(* Specification *)

Init ==
    /\ env \in Environments
    /\ pc = "idle"
    /\ body = "unset"
    /\ prompt = Absent
    /\ overrides = NoOverrides
    /\ fn = ""
    /\ arg = <<>>
    /\ ret = <<>>
    /\ upstreamOk = TRUE
    /\ maxMs = Num(0)
    /\ intervalMs = Num(0)
    /\ elapsed = 0
    /\ calls = <<>>
    /\ polls = 0
    /\ waits = 0
    /\ lastStatus = ""
    /\ specSeen = 0
    /\ iter = 0
    /\ aborted = FALSE
    /\ response = NoResponse
    /\ planned = NotPlanned
    /\ res = NoRes
    /\ script = "proxy"
    /\ cfg = FullConfig
    /\ PageLoaded

Next ==
    \/ \E req \in Bodies : Invoke(req)
    \/ \E a \in TokenAnswers : getToken(a)
    \/ \E a \in IdAnswers : CreateThread(a)
    \/ \E a \in PlainAnswers : AddMessage(a)
    \/ \E a \in IdAnswers : CreateRun(a)
    \/ \E a \in RunAnswers, latency \in {0, LatencyMs} : PollAnswer(a, latency)
    \/ SleepDone
    \/ \E a \in ListAnswers : ListMessages(a)
    \/ ResponseSent

\* the gateway, invoked again and again under one environment
Spec == Init /\ [][Next]_vars

\* every fetch is answered and every timer fires
LiveSpec == Init /\ [][Next]_vars /\ WF_vars(Next)

\* the browser holds no process.env
NoRun ==
    /\ env = [AZURE_TENANT_ID |-> Unset, AZURE_CLIENT_ID |-> Unset,
              AZURE_CLIENT_SECRET |-> Unset, PROJECT_ENDPOINT |-> Unset,
              PROJECT_ID |-> Unset, AGENT_ID |-> Unset,
              RUN_POLL_TIMEOUT_MS |-> Unset, RUN_POLL_INTERVAL_MS |-> Unset]
    /\ pc = "idle"
    /\ body = "unset"
    /\ prompt = Absent
    /\ overrides = NoOverrides
    /\ fn = ""
    /\ arg = <<>>
    /\ ret = <<>>
    /\ upstreamOk = TRUE
    /\ maxMs = Num(0)
    /\ intervalMs = Num(0)
    /\ elapsed = 0
    /\ calls = <<>>
    /\ polls = 0
    /\ waits = 0
    /\ lastStatus = ""
    /\ specSeen = 0
    /\ iter = 0
    /\ aborted = FALSE
    /\ response = NoResponse
    /\ planned = NotPlanned
    /\ res = NoRes

DirectInit == NoRun /\ script = "direct" /\ cfg \in Configs /\ PageLoaded

PageInit == NoRun /\ script \in Scripts /\ cfg \in Configs /\ PageLoaded

DirectNext ==
    \/ Submit
    \/ Stop
    \/ \E r \in Responses : DirectResponse(r)
    \/ \E a \in DirectIdAnswers : DirectThread(a)
    \/ \E a \in DirectPlainAnswers : DirectMessage(a)
    \/ \E a \in DirectPlainAnswers : DirectRun(a)
    \/ \E a \in DirectRunAnswers : DirectPoll(a)
    \/ DirectSleepDone
    \/ \E a \in DirectListAnswers : DirectList(a)

\* one run of runPlanner in the browser
DirectSpec == DirectInit /\ [][DirectNext]_vars

ExtractNext == \E messages \in Listed : Extract(messages)

\* the two extractions applied to message lists
ExtractSpec == DirectInit /\ [][ExtractNext]_vars

SplitNext == \E text \in Texts : Split(text)

\* splitGroceryList applied to texts
SplitSpec == DirectInit /\ [][SplitNext]_vars

CartNext == \E text \in TokenTexts : ParseCart(text)

\* parseCartItemsFromText applied to texts
CartSpec == DirectInit /\ [][CartNext]_vars

PageNext ==
    \/ PageSubmit
    \/ PageStop
    \/ \E g \in 1..MaxGenerations, ok \in BOOLEAN : Settle(g, ok)
    \/ \E g \in 1..MaxGenerations : Timer(g)

\* either script under the events of the page: submit, Stop click, fetch
\* responses and poll timers in every order
PageSpec == PageInit /\ [][PageNext]_vars

----------------------------------------------------------------------------
(* Properties *)

Issued(op) == \E i \in 1..Len(calls) : calls[i].op = op

TimesIssued(op) == Cardinality({i \in 1..Len(calls) : calls[i].op = op})

\* the run ended in an error: a failure response of the gateway, an exception
\* of runPlanner
EndedInError == pc = "done" /\ (response.status = 500 \/ planned.kind = "error")

\* C1: the list-messages GET is issued only after a poll has observed a
\* successful terminal status: never after a failure status, after a failed or
\* ignored poll, or with no terminal status observed at all.
C1_ListOnlyAfterSuccess == Issued("list") => lastStatus \in SuccessStatuses

\* C2: a request whose body has no prompt (under prompt, input or text), or
\* whose prompt is not a string, is answered 400 with an error message and no
\* outbound call is made.
C2_MissingPromptIs400 ==
    (body # "unset" /\ PromptRejected(prompt)) =>
        (/\ pc = "done"
         /\ response.status = 400
         /\ ~MessageEmpty(response.error)
         /\ calls = <<>>)

ConfigKeys == {"AZURE_TENANT_ID", "AZURE_CLIENT_ID", "AZURE_CLIENT_SECRET",
               "PROJECT_ENDPOINT", "PROJECT_ID", "AGENT_ID"}

MissingKeys(e) == {k \in ConfigKeys : Falsy(e[k])}

Names(message) == {message[i] : i \in 1..Len(message)}

\* C3: with a valid prompt and a required configuration value missing, the
\* handler answers 500 with an error naming the missing values and makes no
\* outbound call.
C3_MissingConfigIs500 ==
    (body # "unset" /\ ~PromptRejected(prompt) /\ MissingKeys(env) # {}) =>
        (/\ pc = "done"
         /\ response.status = 500
         /\ MissingKeys(env) \subseteq Names(response.error)
         /\ calls = <<>>)

C3_Witness ==
    /\ pc = "done"
    /\ response.status = 500
    /\ calls = <<>>
    /\ prompt = StrVal("plan")
    /\ "AGENT_ID" \in Names(response.error)
    /\ Falsy(env.AGENT_ID)

\* C4: a success response carries a text that is not empty after trimming; an
\* empty extracted text never yields a success.
C4_SuccessHasText ==
    response.status = 200 =>
        (response.text # <<>> /\ ~Blank(response.text) /\ response.text = Trim(response.text))

C4_Witness == pc = "done" /\ response.status = 200 /\ response.text = <<"a">>

\* C5: when the status stays non-terminal until the ceiling is exceeded (the
\* elapsed-time ceiling of the gateway, the 60 iterations of runPlanner), the
\* operation ends in a timeout error carrying the last status and
\* list-messages is never called.
C5_CeilingRaisesTimeout ==
    /\ (pc # "poll" /\ lastStatus # "" /\ specSeen = 0 /\ TimedOut(elapsed, maxMs)) =>
          (EndedInError /\ lastStatus \in Names(response.error) /\ ~Issued("list"))
    /\ (iter >= PollIterations /\ specSeen = 0) =>
          (EndedInError /\ ~Issued("list"))

\* C6: k non-terminal statuses followed by a successful terminal status, all
\* within the ceiling: exactly k+1 status GETs, exactly k waits, and then
\* list-messages called exactly once.
C6_WaitsBetweenPolls ==
    (lastStatus \in SuccessStatuses /\ specSeen = 1 /\ ~TimedOut(elapsed, maxMs)) =>
        (waits = polls - 1 /\ TimesIssued("poll") = polls /\ TimesIssued("list") = 1)

\* C7: polling ends at the first status of {completed, succeeded, finished},
\* which proceeds to list messages, or of {failed, cancelled, canceled,
\* expired, error}, which fails with a run-failed error instead of polling on.
C7_TerminalStatusEndsPolling ==
    /\ lastStatus \in SuccessStatuses => Issued("list")
    /\ lastStatus \in FailureStatuses => (EndedInError /\ ~Issued("list"))

AllOk == \A i \in 1..Len(calls) : calls[i].result # "failed"

\* C8: a non-empty string prompt, a complete configuration and an upstream
\* whose every call succeeds (token, thread id, run id, a run that reports
\* completed within the ceiling, a list holding an assistant message with
\* text): the handler goes through every call and answers 200 with a
\* non-empty text.
C8_SuccessPath ==
    (body # "unset" /\ ~PromptRejected(prompt) /\ Missing(env) = <<>> /\ upstreamOk) =>
        (/\ calls # <<>>
         /\ AllOk
         /\ response.status \in {0, 200}
         /\ pc = "done" =>
               (/\ response.status = 200
                /\ response.text # <<>>
                /\ response.error = <<>>
                /\ lastStatus = "completed"
                /\ \A op \in {"token", "thread", "message", "run", "list"} :
                      TimesIssued(op) = 1))

C8_Witness ==
    /\ pc = "done"
    /\ response.status = 200
    /\ prompt = StrVal("plan")
    /\ upstreamOk
    /\ waits = 2
    /\ TimesIssued("list") = 1
    /\ AllOk

\* C9: a failing invocation ends in exactly one failure response whose error
\* message is not empty; no error escapes the handler.
C9_FailureIsStructured ==
    /\ pc = "done" <=> response # NoResponse
    /\ pc = "done" => response.status \in {200, 400, 500}
    /\ (pc = "done" /\ response.status # 200) =>
          (response.error # <<>> /\ ~MessageEmpty(response.error) /\ response.text = <<>>)
    /\ ~AllOk => (pc = "done" /\ response.status = 500)

C9_Witness ==
    /\ pc = "done"
    /\ response.status = 500
    /\ ~AllOk
    /\ calls[Len(calls)].op = "poll"

Rank(op) ==
    CASE op = "token" -> 1 [] op = "thread" -> 2 [] op = "message" -> 3
      [] op = "run" -> 4 [] op = "poll" -> 5 [] op = "list" -> 6

\* C10: the outbound operations occur in the order token, thread, message,
\* run, status polls, list; each starts only after the previous one succeeded;
\* each but the status poll is issued at most once and none after a failure;
\* an invocation that passes validation and configuration issues a token request.
C10_CallOrder ==
    /\ \A i \in 1..Len(calls) - 1 :
          /\ calls[i].result = "ok"
          /\ \/ Rank(calls[i + 1].op) = Rank(calls[i].op) + 1
             \/ calls[i].op = "poll" /\ calls[i + 1].op = "poll"
    /\ calls # <<>> => calls[1].op = "token"
    /\ \A op \in {"token", "thread", "message", "run", "list"} : TimesIssued(op) <= 1
    /\ pc \in {"token", "thread", "message", "run", "poll", "list"} =>
          (calls # <<>> /\ calls[Len(calls)].op = pc /\ calls[Len(calls)].result = "pending")
    /\ (pc = "done" /\ calls = <<>>) =>
          \/ response.status = 400
          \/ response.status = 500 /\ Missing(env) # <<>>
          \/ response.status = 500 /\ response.error[1] \in
                {"Unexpected end of JSON input",
                 "Cannot read properties of null (reading 'prompt')"}

C10_Witness ==
    /\ pc = "done"
    /\ Len(calls) = 7
    /\ calls[7].op = "list"
    /\ calls[6].op = "poll"
    /\ calls[5].op = "poll"

\* C11: the handling of one request always ends in a response (a timeout
\* error when the run never becomes terminal), and a status poll is followed
\* by a timed wait before the next one.
C11_RequestTerminates ==
    /\ (pc # "idle") ~> (pc = "done")
    /\ [][pc' = "poll" => pc \in {"run", "sleep", "poll"}]_vars
    /\ [][(pc = "poll" /\ pc' # "poll") => pc' \in {"sleep", "list", "done"}]_vars

\* C12: every outbound call of the gateway goes where the server-side
\* configuration says and carries its credentials and agent, whatever the
\* request body holds under endpoint or agentId, so that invocations that
\* differ only in those fields issue the same calls; and the body the browser
\* posts to /api/plan holds the prompt and nothing else.
C12_TargetsFromConfig ==
    /\ \A i \in 1..Len(calls) :
          LET t == calls[i].target
          IN /\ calls[i].op = "token" =>
                   /\ t.tenant = env.AZURE_TENANT_ID.v
                   /\ t.client = env.AZURE_CLIENT_ID.v
                   /\ t.secret = env.AZURE_CLIENT_SECRET.v
             /\ calls[i].op # "token" =>
                   /\ t.endpoint = StripSlashes(env.PROJECT_ENDPOINT.v)
                   /\ t.project = env.PROJECT_ID.v
             /\ calls[i].op = "run" => t.agent = env.AGENT_ID.v
             /\ <<"evil">> \notin {t.tenant, t.client, t.secret, t.endpoint, t.project, t.agent}
    /\ \A userText \in {"", "plan"} :
          /\ DOMAIN Payload(userText) = {"prompt"}
          /\ Payload(userText).prompt = userText

C12_Witness ==
    /\ overrides = CallerOverrides
    /\ pc = "done"
    /\ response.status = 200
    /\ \E i \in 1..Len(calls) :
          calls[i].op = "run" /\ calls[i].target.agent = <<"x">>

\* a block in one of the four documented shapes
Shape(block) ==
    /\ ~block.null
    /\ \/ block.type \in {"text", "output_text"} /\ block.text.kind = "string"
       \/ block.type \in {"text", ""} /\ block.text.kind = "object"

\* an assistant message holding a text s as a string content or as one block
\* of a documented shape
Shaped(msg) ==
    /\ msg.role = "assistant"
    /\ \/ msg.content.kind = "string"
       \/ /\ msg.content.kind = "array"
          /\ Len(msg.content.blocks) = 1
          /\ Shape(msg.content.blocks[1])

\* the text s such a message holds
Held(msg) ==
    IF msg.content.kind = "string" THEN msg.content.text
    ELSE msg.content.blocks[1].text.value

\* C13: an assistant message holding a text s in any of the four block shapes,
\* or as a plain-string content, yields s trimmed, the same in every shape, in
\* the gateway and in runPlanner.
C13_ShapeInvariance ==
    (fn = "extract" /\ Len(arg) = 1 /\ Shaped(arg[1])) =>
        (/\ ret.gateway = Trim(Held(arg[1]))
         /\ ~ret.direct.throws
         /\ ret.direct.text = Trim(Held(arg[1])))

\* the part of C13 about the gateway
GatewayShapeInvariance ==
    (fn = "extract" /\ Len(arg) = 1 /\ Shaped(arg[1])) => ret.gateway = Trim(Held(arg[1]))

\* the list with every role written in lower case
Lowered(list) == [i \in 1..Len(list) |-> [list[i] EXCEPT !.role = ToLowerCase(@)]]

\* C14: a message counts as the assistant's when its role is "assistant" in
\* any casing: writing the roles of a list in another casing leaves the
\* extracted text unchanged.
C14_RoleCaseInsensitive ==
    fn = "extract" =>
        (/\ ret.gateway = extractAssistantText(Lowered(arg))
         /\ ret.direct = DirectExtract(Lowered(arg)))

\* the part of C14 about runPlanner
DirectRoleCaseInsensitive ==
    fn = "extract" => ret.direct = DirectExtract(Lowered(arg))

NoAssistant(list) == \A i \in 1..Len(list) : ToLowerCase(list[i].role) # "assistant"

\* C15: a list without any assistant message (the empty list, a list holding
\* only the user's message) yields the empty text, which is reported as a
\* failure; the content of another role's message is never the result.
C15_NoAssistantNoText ==
    (fn = "extract" /\ NoAssistant(arg)) =>
        (/\ ret.gateway = <<>>
         /\ ~ret.direct.throws
         /\ ret.direct.text = <<>>)

\* the part of C15 about the gateway
GatewayNoAssistantNoText ==
    (fn = "extract" /\ NoAssistant(arg)) => ret.gateway = <<>>

HeadingLines(text) == {k \in 1..Len(text) : IsHeading(text[k])}

\* C16: when some line of the text is a heading (grocery list, shopping list
\* or ingredients, in any casing, with an optional colon or dash), the first
\* line included, plan is the text before the first such line and grocery the
\* text from that line on (both trimmed); without such a line plan is the
\* whole text and grocery is empty.
C16_SplitAtHeading ==
    fn = "split" =>
        IF HeadingLines(arg) = {}
          THEN ret.plan = arg /\ ret.grocery = <<"">>
        ELSE LET k == CHOOSE m \in HeadingLines(arg) : \A n \in HeadingLines(arg) : m <= n
             IN /\ ret.plan = TrimText(SubSeq(arg, 1, k - 1))
                /\ ret.grocery = TrimText(SubSeq(arg, k, Len(arg)))

\* the part of C16 that holds: a heading between two line ends
SplitAtInnerHeading ==
    (fn = "split" /\ HeadingLines(arg) \subseteq 2..Len(arg) - 1) =>
        IF HeadingLines(arg) = {}
          THEN ret.plan = arg /\ ret.grocery = <<"">>
        ELSE LET k == CHOOSE m \in HeadingLines(arg) : \A n \in HeadingLines(arg) : m <= n
             IN /\ ret.plan = TrimText(SubSeq(arg, 1, k - 1))
                /\ ret.grocery = TrimText(SubSeq(arg, k, Len(arg)))

\* the places of the text where the identifier occurs, in any casing
Occurrences(text, asin) == {i \in 1..Len(text) : text[i] \in IdTokens /\ ToUpperCase(text[i]) = asin}

\* the quantity written after the occurrence at i: the first quantity of the
\* line before any other identifier, 1 when there is none
Written(text, i) ==
    LET found == {j \in i + 1..Len(text) :
                     /\ text[j] \in QtyTokens
                     /\ \A k \in i + 1..j - 1 : text[k] \notin IdTokens \cup QtyTokens \cup {"\n"}}
    IN IF found = {} THEN 1 ELSE ParseInt(text[CHOOSE j \in found : TRUE])

RECURSIVE Total(_, _)
Total(text, places) ==
    IF places = {} THEN 0
    ELSE LET i == CHOOSE p \in places : TRUE
         IN Written(text, i) + Total(text, places \ {i})

\* C17: the result holds exactly one entry for every product identifier of
\* the text, and its quantity is the sum of the quantities written after the
\* occurrences of the identifier, an occurrence without quantity counting 1.
C17_CartQuantities ==
    fn = "cart" =>
        LET asins == {ToUpperCase(arg[i]) : i \in {j \in 1..Len(arg) : arg[j] \in IdTokens}}
        IN /\ Len(ret) = Cardinality(asins)
           /\ \A asin \in asins :
                 \E n \in 1..Len(ret) :
                    ret[n] = [asin |-> asin, qty |-> Total(arg, Occurrences(arg, asin))]

\* the part of C17 that holds: texts where no identifier stands between an
\* identifier and the next quantity of its line
CartQuantitiesApart ==
    (fn = "cart" /\ \A i \in 1..Len(arg) :
                       arg[i] \in IdTokens => \/ QuantityAfter(arg, i) = 0
                                              \/ \A k \in i + 1..QuantityAfter(arg, i) :
                                                    arg[k] \notin IdTokens) =>
        LET asins == {ToUpperCase(arg[i]) : i \in {j \in 1..Len(arg) : arg[j] \in IdTokens}}
        IN /\ Len(ret) = Cardinality(asins)
           /\ \A asin \in asins :
                 \E n \in 1..Len(ret) :
                    ret[n] = [asin |-> asin, qty |-> Total(arg, Occurrences(arg, asin))]

\* the documented example: "B07CVZRZTC x2" and a bare "B07CVZRZTC" give 3
CartExample ==
    parseCartItemsFromText(<<"B07CVZRZTC", "x2", "\n", "B07CVZRZTC">>)
        = <<[asin |-> "B07CVZRZTC", qty |-> 3]>>

TimeoutRaised ==
    pc = "done" /\ response.status = 500 /\ response.error[1] = "Run polling timed out after "

\* C18: in waitForRunCompletion the test of the status comes before the test
\* of the ceiling: a status GET is issued whenever the run was created, a
\* terminal status is honoured even when the ceiling is already exceeded, and
\* the timeout is raised only right after a status that is not terminal.
C18_TerminalBeforeTimeout ==
    /\ (\E i \in 1..Len(calls) : calls[i].op = "run" /\ calls[i].result = "ok") =>
          (polls >= 1 /\ Issued("poll"))
    /\ lastStatus \in TerminalStatuses =>
          /\ ~TimeoutRaised
          /\ pc \in {"list", "done"}
          /\ lastStatus = "completed" => Issued("list")
          /\ lastStatus # "completed" => (pc = "done" /\ response.status = 500 /\ ~Issued("list"))
    /\ TimeoutRaised =>
          /\ lastStatus # ""
          /\ lastStatus \notin TerminalStatuses
          /\ TimedOut(elapsed, maxMs)
          /\ calls[Len(calls)] = [Call("poll") EXCEPT !.result = "ok"]

C18_Witness ==
    /\ pc = "done"
    /\ lastStatus = "completed"
    /\ TimedOut(elapsed, maxMs)
    /\ response.status = 200

Generations == 1..Len(generations)

StoppedNeverRenders == \A g \in Generations : generations[g].stopped => generations[g].pc # "rendered"

OneInFlight == Cardinality({g \in Generations : InFlight(generations[g])}) <= 1

\* C19: under every interleaving of submit, Stop click, fetch responses and
\* poll timers, a generation that was stopped never renders its result or
\* writes the cached last plan, and at most one generation is in flight.
C19_StoppedStaysStopped == StoppedNeverRenders /\ OneInFlight

\* the script that calls the gateway keeps both
ProxyStoppedStaysStopped == script = "proxy" => (StoppedNeverRenders /\ OneInFlight)

\* so does the other script as long as nothing is submitted after a Stop
DirectStoppedOnce == Len(generations) = 1 => (StoppedNeverRenders /\ OneInFlight)

\* the cached last plan is never the one of a stopped generation
DirectNeverCachesStopped ==
    ~(localStorage # 0 /\ generations[localStorage].stopped /\ out.kind = "rendered")

====
